---- MODULE Spec2Model ----
(***************************************************************************)
(* Model of the scheduling engine of rs-fsrs: the Basic, Short-Term and    *)
(* Long-Term strategies of src/scheduler.                                  *)
(*                                                                         *)
(* One review event is (configuration, prior card, timestamp).  The        *)
(* memory-model provider (Parameters) is opaque to the schedulers: its     *)
(* difficulty and stability results are modelled as symbolic terms (which  *)
(* formula produced the value, for which rating, from which arguments),    *)
(* and its next_interval as an arbitrary table from stability terms to     *)
(* raw real intervals, held in fixed point (RawPerDay units per day).      *)
(* Timestamps and durations are whole minutes.                             *)
(***************************************************************************)
EXTENDS Integers, Sequences, FiniteSets, TLC

VARIABLES
    params,     \* the configuration handed to the constructors
    card,       \* the prior card handed to the constructors
    now,        \* the review timestamp handed to the constructors
    basic,      \* Basic(Base): last, current, next
    shortTerm,  \* ShortTerm: card (now and parameters are the ones above)
    longterm,   \* Longterm(Base): last, current, next (the outcome cache)
    basicOut,   \* rating -> <<card>> returned by Basic.next_card, <<>> if not called
    stOut,      \* rating -> <<card>> returned by ShortTerm.next_card, <<>> if not called
    ltOut,      \* <<[rating, info, hit]>> of the latest Longterm.review call, <<>> if none
    chain       \* bookkeeping of a chain of reviews (strategy, counters, last step)

vars == <<params, card, now, basic, shortTerm, longterm, basicOut, stOut, ltOut, chain>>

----------------------------------------------------------------------------
(* Bounds of the model *)

\* raw intervals drawn for the Basic / Short-Term events: 0 .. MaxRaw units
MaxRaw == 2
\* raw intervals drawn for the Long-Term events: 0 .. MaxRawLT units
MaxRawLT == 1
\* fixed-point resolution of a real number of days: units per day
RawPerDay == 2
\* lapses of the prior card: 0 .. MaxLapses
MaxLapses == 1
\* elapsed_days of the prior card: 0 .. MaxElapsed
MaxElapsed == 1
\* number of reviews in a chain
MaxReviews == 4

----------------------------------------------------------------------------
(* Enumerations *)

Again == "Again"
Hard == "Hard"
Good == "Good"
Easy == "Easy"
Ratings == {Again, Hard, Good, Easy}

New == "New"
Learning == "Learning"
Relearning == "Relearning"
Reviewing == "Reviewing"
\* longterm.rs still spells the Reviewing state `Review`
Review == Reviewing
States == {New, Learning, Relearning, Reviewing}

----------------------------------------------------------------------------
(* chrono durations, in minutes *)

MinutesPerDay == 1440
DurationMinutes(n) == n
DurationDays(n) == n * MinutesPerDay

\* the timestamp of the modelled review events
Epoch == 10 * MinutesPerDay

----------------------------------------------------------------------------
(* f64 arithmetic on raw intervals, in fixed point *)

\* the literal 1.0
OneDay == RawPerDay
\* f64::min, f64::max
FMin(a, b) == IF a <= b THEN a ELSE b
FMax(a, b) == IF a >= b THEN a ELSE b
\* `x as i64`: truncation toward zero
AsI64(x) == IF x >= 0 THEN x \div RawPerDay ELSE -((-x) \div RawPerDay)

----------------------------------------------------------------------------
(* The memory-model provider (Parameters).  A difficulty or stability is   *)
(* the term [f, r, args]: the formula that produced it, the rating it was  *)
(* called with, and the tags <<f, r>> of its arguments.                    *)

NoRating == "-"
Tag(x) == <<x.f, x.r>>
Term(f, r, args) == [f |-> f, r |-> r, args |-> args]
\* a value the caller supplied with the prior card
Given(name) == Term(name, NoRating, <<>>)

InitDifficulty(rating) == Term("init_difficulty", rating, <<>>)
InitStability(rating) == Term("init_stability", rating, <<>>)
NextDifficulty(d, rating) == Term("next_difficulty", rating, <<Tag(d)>>)
ShortTermStability(s, rating) == Term("short_term_stability", rating, <<Tag(s)>>)
NextForgetStability(d, s, r) ==
    Term("next_forget_stability", NoRating, <<Tag(d), Tag(s), Tag(r)>>)
NextRecallStability(d, s, r, rating) ==
    Term("next_recall_stability", rating, <<Tag(d), Tag(s), Tag(r)>>)
\* next_stability is the unsplit form of the forget / recall pair
NextStability(d, s, r, rating) ==
    IF rating = Again THEN NextForgetStability(d, s, r)
    ELSE NextRecallStability(d, s, r, rating)
\* Card::retrievability: a function of the card's stability and review time
Retrievability(c, t) == Term("retrievability", NoRating, <<Tag(c.stability)>>)

\* next_interval(stability, elapsed_days): the configured raw interval of
\* that stability; a configuration either ignores elapsed_days or lengthens
\* the interval by one unit per elapsed day
NextInterval(p, stability, elapsed_days) ==
    p.ivl[stability] + (IF p.uses_elapsed THEN elapsed_days ELSE 0)

\* the configurations whose next_interval is defined on the stabilities `keys`
Providers(keys, maxRaw) == [ivl : [keys -> 0..maxRaw], uses_elapsed : BOOLEAN]

----------------------------------------------------------------------------
(* Card, Base, Cards *)

\* a card as the caller holds it before the review
PriorCard(state, lapses, elapsed, t) ==
    [ state          |-> state,
      difficulty     |-> Given("difficulty"),
      stability      |-> Given("stability"),
      due            |-> t,
      elapsed_days   |-> elapsed,
      scheduled_days |-> elapsed,
      reps           |-> IF state = New THEN 0 ELSE lapses + 1,
      lapses         |-> lapses,
      rating         |-> IF state = New THEN Again ELSE Good,
      reviewed_at    |-> t - DurationDays(elapsed) ]

\* Card::new(): the brand-new card
CardNew(t) == PriorCard(New, 0, 0, t)

\* Base::new(parameters, card, now): the snapshot before the review (last),
\* the snapshot being advanced (current) and the empty outcome cache (next)
EmptyCache == [r \in {} |-> <<>>]
BaseNew(c) == [last |-> c, current |-> c, next |-> EmptyCache]

\* Base::build_log / Base::current_review: the review log of a rating
BuildLog(self, t, rating) ==
    [ rating         |-> rating,
      state          |-> self.current.state,
      elapsed_days   |-> self.current.elapsed_days,
      scheduled_days |-> self.current.scheduled_days,
      review         |-> t ]

\* Cards::new(card): one copy of the card per rating
CardsNew(c) == [r \in Ratings |-> c]
\* Cards::get(rating)
CardsGet(cards, rating) == cards[rating]

----------------------------------------------------------------------------
(* scheduler/basic.rs *)

\* a slip in next_state: Good sends the card back to Learning
Basic_next_state_GoodLearning(rating) ==
    IF rating = Again THEN Relearning
    ELSE IF rating = Good THEN Learning ELSE Reviewing

\* fn next_state(rating), basic.rs
Basic_next_state(rating) ==
    IF rating = Again THEN Relearning ELSE Reviewing

\* a slip in review_new: Hard waits 10 minutes, as Good does
Basic_review_new_HardTen(self, p, t, rating) ==
    LET c == [self.current EXCEPT
                 !.difficulty = InitDifficulty(rating),
                 !.stability = InitStability(rating)]
        easy_interval == AsI64(NextInterval(p, c.stability, c.elapsed_days))
        res == CASE rating = Again -> <<0, DurationMinutes(1), Learning>>
                 [] rating = Hard  -> <<0, DurationMinutes(10), Learning>>
                 [] rating = Good  -> <<0, DurationMinutes(10), Learning>>
                 [] rating = Easy  ->
                        <<easy_interval, DurationDays(easy_interval), Reviewing>>
    IN  [c EXCEPT !.scheduled_days = res[1],
                  !.due = t + res[2],
                  !.state = res[3]]

Basic_review_new(self, p, t, rating) ==
    LET c == [self.current EXCEPT
                 !.difficulty = InitDifficulty(rating),
                 !.stability = InitStability(rating)]
        easy_interval == AsI64(NextInterval(p, c.stability, c.elapsed_days))
        res == CASE rating = Again -> <<0, DurationMinutes(1), Learning>>
                 [] rating = Hard  -> <<0, DurationMinutes(5), Learning>>
                 [] rating = Good  -> <<0, DurationMinutes(10), Learning>>
                 [] rating = Easy  ->
                        <<easy_interval, DurationDays(easy_interval), Reviewing>>
    IN  [c EXCEPT !.scheduled_days = res[1],
                  !.due = t + res[2],
                  !.state = res[3]]

\* a slip in review_learning: the Easy interval is not raised above Good
Basic_review_learning_EasyUnclamped(self, p, t, rating) ==
    LET interval == self.current.elapsed_days
        c == [self.current EXCEPT
                 !.difficulty = NextDifficulty(self.last.difficulty, rating),
                 !.stability = ShortTermStability(self.last.stability, rating)]
        good_days == AsI64(NextInterval(p, c.stability, interval))
        good_stability == ShortTermStability(self.last.stability, Good)
        good_interval == NextInterval(p, good_stability, interval)
        easy_days == AsI64(NextInterval(p, c.stability, interval))
        res == CASE rating = Again -> <<0, DurationMinutes(5), self.last.state>>
                 [] rating = Hard  -> <<0, DurationMinutes(10), self.last.state>>
                 [] rating = Good  -> <<good_days, DurationDays(good_days), Reviewing>>
                 [] rating = Easy  -> <<easy_days, DurationDays(easy_days), Reviewing>>
    IN  [c EXCEPT !.scheduled_days = res[1],
                  !.due = t + res[2],
                  !.state = res[3]]

\* a slip in review_learning: Good keeps the card in its state, as Hard does
Basic_review_learning_GoodStays(self, p, t, rating) ==
    LET interval == self.current.elapsed_days
        c == [self.current EXCEPT
                 !.difficulty = NextDifficulty(self.last.difficulty, rating),
                 !.stability = ShortTermStability(self.last.stability, rating)]
        good_days == AsI64(NextInterval(p, c.stability, interval))
        good_stability == ShortTermStability(self.last.stability, Good)
        good_interval == NextInterval(p, good_stability, interval)
        easy_days == AsI64(FMax(NextInterval(p, c.stability, interval),
                                good_interval + OneDay))
        res == CASE rating = Again -> <<0, DurationMinutes(5), self.last.state>>
                 [] rating = Hard  -> <<0, DurationMinutes(10), self.last.state>>
                 [] rating = Good  -> <<good_days, DurationDays(good_days), self.last.state>>
                 [] rating = Easy  -> <<easy_days, DurationDays(easy_days), Reviewing>>
    IN  [c EXCEPT !.scheduled_days = res[1],
                  !.due = t + res[2],
                  !.state = res[3]]

Basic_review_learning(self, p, t, rating) ==
    LET interval == self.current.elapsed_days
        c == [self.current EXCEPT
                 !.difficulty = NextDifficulty(self.last.difficulty, rating),
                 !.stability = ShortTermStability(self.last.stability, rating)]
        good_days == AsI64(NextInterval(p, c.stability, interval))
        good_stability == ShortTermStability(self.last.stability, Good)
        good_interval == NextInterval(p, good_stability, interval)
        easy_days == AsI64(FMax(NextInterval(p, c.stability, interval),
                                good_interval + OneDay))
        res == CASE rating = Again -> <<0, DurationMinutes(5), self.last.state>>
                 [] rating = Hard  -> <<0, DurationMinutes(10), self.last.state>>
                 [] rating = Good  -> <<good_days, DurationDays(good_days), Reviewing>>
                 [] rating = Easy  -> <<easy_days, DurationDays(easy_days), Reviewing>>
    IN  [c EXCEPT !.scheduled_days = res[1],
                  !.due = t + res[2],
                  !.state = res[3]]

\* a slip in review_intervals: the Easy interval is not raised above Good
Basic_review_intervals_EasyUnclamped(p, hard_stability, good_stability, easy_stability, interval) ==
    LET hard_raw == NextInterval(p, hard_stability, interval)
        good_raw == NextInterval(p, good_stability, interval)
        hard_interval == FMin(hard_raw, good_raw)
        good_interval == FMax(good_raw, hard_interval + OneDay)
        easy_interval == NextInterval(p, easy_stability, interval)
    IN  <<AsI64(hard_interval), AsI64(good_interval), AsI64(easy_interval)>>

\* a slip in review_intervals: Good is clamped to Hard without the added day
Basic_review_intervals_GoodNoGap(p, hard_stability, good_stability, easy_stability, interval) ==
    LET hard_raw == NextInterval(p, hard_stability, interval)
        good_raw == NextInterval(p, good_stability, interval)
        hard_interval == FMin(hard_raw, good_raw)
        good_interval == FMax(good_raw, hard_interval)
        easy_interval == FMax(NextInterval(p, easy_stability, interval),
                              good_interval + OneDay)
    IN  <<AsI64(hard_interval), AsI64(good_interval), AsI64(easy_interval)>>

\* returns <<hard_interval, good_interval, easy_interval>> in whole days
Basic_review_intervals(p, hard_stability, good_stability, easy_stability, interval) ==
    LET hard_raw == NextInterval(p, hard_stability, interval)
        good_raw == NextInterval(p, good_stability, interval)
        hard_interval == FMin(hard_raw, good_raw)
        good_interval == FMax(good_raw, hard_interval + OneDay)
        easy_interval == FMax(NextInterval(p, easy_stability, interval),
                              good_interval + OneDay)
    IN  <<AsI64(hard_interval), AsI64(good_interval), AsI64(easy_interval)>>

\* a slip in review_reviewing: Hard counts as a lapse too
Basic_review_reviewing_HardLapses(self, p, t, rating) ==
    LET interval == self.current.elapsed_days
        stability == self.last.stability
        difficulty == self.last.difficulty
        retrievability == Retrievability(self.last, t)
        Upd(r, c) == [c EXCEPT
                         !.difficulty = NextDifficulty(difficulty, r),
                         !.stability = NextStability(difficulty, stability,
                                                     retrievability, r)]
        \* cards.update(f): f applied to every (rating, card)
        cards == [r \in Ratings |-> Upd(r, CardsNew(self.current)[r])]
        ivls == Basic_review_intervals(p, cards[Hard].stability,
                    cards[Good].stability, cards[Easy].stability, interval)
        res == CASE rating = Again -> <<0, DurationMinutes(5), 1>>
                 [] rating = Hard  -> <<ivls[1], DurationDays(ivls[1]), 1>>
                 [] rating = Good  -> <<ivls[2], DurationDays(ivls[2]), 0>>
                 [] rating = Easy  -> <<ivls[3], DurationDays(ivls[3]), 0>>
        c == CardsGet(cards, rating)
    IN  [c EXCEPT !.scheduled_days = res[1],
                  !.due = t + res[2],
                  !.lapses = c.lapses + res[3],
                  !.state = Basic_next_state(rating)]

\* a slip in review_reviewing: the Easy outcome is due after the Good interval
Basic_review_reviewing_EasyDueGood(self, p, t, rating) ==
    LET interval == self.current.elapsed_days
        stability == self.last.stability
        difficulty == self.last.difficulty
        retrievability == Retrievability(self.last, t)
        Upd(r, c) == [c EXCEPT
                         !.difficulty = NextDifficulty(difficulty, r),
                         !.stability = NextStability(difficulty, stability,
                                                     retrievability, r)]
        \* cards.update(f): f applied to every (rating, card)
        cards == [r \in Ratings |-> Upd(r, CardsNew(self.current)[r])]
        ivls == Basic_review_intervals(p, cards[Hard].stability,
                    cards[Good].stability, cards[Easy].stability, interval)
        res == CASE rating = Again -> <<0, DurationMinutes(5), 1>>
                 [] rating = Hard  -> <<ivls[1], DurationDays(ivls[1]), 0>>
                 [] rating = Good  -> <<ivls[2], DurationDays(ivls[2]), 0>>
                 [] rating = Easy  -> <<ivls[3], DurationDays(ivls[2]), 0>>
        c == CardsGet(cards, rating)
    IN  [c EXCEPT !.scheduled_days = res[1],
                  !.due = t + res[2],
                  !.lapses = c.lapses + res[3],
                  !.state = Basic_next_state(rating)]

Basic_review_reviewing(self, p, t, rating) ==
    LET interval == self.current.elapsed_days
        stability == self.last.stability
        difficulty == self.last.difficulty
        retrievability == Retrievability(self.last, t)
        Upd(r, c) == [c EXCEPT
                         !.difficulty = NextDifficulty(difficulty, r),
                         !.stability = NextStability(difficulty, stability,
                                                     retrievability, r)]
        \* cards.update(f): f applied to every (rating, card)
        cards == [r \in Ratings |-> Upd(r, CardsNew(self.current)[r])]
        ivls == Basic_review_intervals(p, cards[Hard].stability,
                    cards[Good].stability, cards[Easy].stability, interval)
        res == CASE rating = Again -> <<0, DurationMinutes(5), 1>>
                 [] rating = Hard  -> <<ivls[1], DurationDays(ivls[1]), 0>>
                 [] rating = Good  -> <<ivls[2], DurationDays(ivls[2]), 0>>
                 [] rating = Easy  -> <<ivls[3], DurationDays(ivls[3]), 0>>
        c == CardsGet(cards, rating)
    IN  [c EXCEPT !.scheduled_days = res[1],
                  !.due = t + res[2],
                  !.lapses = c.lapses + res[3],
                  !.state = Basic_next_state(rating)]

Basic_next_card(self, p, t, rating) ==
    CASE self.last.state = New -> Basic_review_new(self, p, t, rating)
      [] self.last.state \in {Learning, Relearning} ->
             Basic_review_learning(self, p, t, rating)
      [] self.last.state = Reviewing -> Basic_review_reviewing(self, p, t, rating)

\* Basic::current_review(&self, rating), basic.rs: delegates to the Base
Basic_current_review(self, t, rating) == BuildLog(self, t, rating)

\* Basic::schedule(&self, rating), basic.rs
Basic_schedule(self, p, t, rating) ==
    [ card   |-> Basic_next_card(self, p, t, rating),
      review |-> Basic_current_review(self, t, rating) ]

\* the stabilities Basic and ShortTerm hand to next_interval for a prior card
BasicKeys(c, t) ==
    CASE c.state = New -> {InitStability(Easy)}
      [] c.state \in {Learning, Relearning} ->
             {ShortTermStability(c.stability, Good),
              ShortTermStability(c.stability, Easy)}
      [] c.state = Reviewing ->
             {NextStability(c.difficulty, c.stability, Retrievability(c, t), r) :
                 r \in {Hard, Good, Easy}}

----------------------------------------------------------------------------
(* scheduler/short_term.rs *)

ShortTermNew(c) == [card |-> c]

\* a slip in next_state: a lapse sends the card back to Learning
ShortTerm_next_state_AgainLearning(rating) ==
    IF rating = Again THEN Learning ELSE Reviewing

\* fn next_state(rating), short_term.rs
ShortTerm_next_state(rating) ==
    IF rating = Again THEN Relearning ELSE Reviewing

\* Card::scheduled_days(): the whole days between the review and the due date
ScheduledDays(c) == (c.due - c.reviewed_at) \div MinutesPerDay

ShortTerm_review_new(self, p, t, rating) ==
    LET c == [self.card EXCEPT
                 !.difficulty = InitDifficulty(rating),
                 !.stability = InitStability(rating),
                 !.reviewed_at = t]
        easy_interval == AsI64(NextInterval(p, c.stability, 0))
        res == CASE rating = Again -> <<DurationMinutes(1), Learning>>
                 [] rating = Hard  -> <<DurationMinutes(5), Learning>>
                 [] rating = Good  -> <<DurationMinutes(10), Learning>>
                 [] rating = Easy  -> <<DurationDays(easy_interval), Reviewing>>
    IN  [c EXCEPT !.due = t + res[1], !.state = res[2]]

\* a slip in review_learning: the difficulty is carried over, not recomputed
ShortTerm_review_learning_KeepDifficulty(self, p, t, rating) ==
    LET last == self.card
        c == [self.card EXCEPT
                 !.stability = ShortTermStability(last.stability, rating),
                 !.reviewed_at = t]
        good_days == AsI64(NextInterval(p, c.stability, 0))
        good_stability == ShortTermStability(last.stability, Good)
        good_interval == NextInterval(p, good_stability, 0)
        easy_interval == AsI64(FMax(NextInterval(p, c.stability, 0),
                                    good_interval + OneDay))
        res == CASE rating = Again -> <<DurationMinutes(5), last.state>>
                 [] rating = Hard  -> <<DurationMinutes(10), last.state>>
                 [] rating = Good  -> <<DurationDays(good_days), Reviewing>>
                 [] rating = Easy  -> <<DurationDays(easy_interval), Reviewing>>
    IN  [c EXCEPT !.due = t + res[1], !.state = res[2]]

ShortTerm_review_learning(self, p, t, rating) ==
    LET last == self.card
        c == [self.card EXCEPT
                 !.difficulty = NextDifficulty(last.difficulty, rating),
                 !.stability = ShortTermStability(last.stability, rating),
                 !.reviewed_at = t]
        good_days == AsI64(NextInterval(p, c.stability, 0))
        good_stability == ShortTermStability(last.stability, Good)
        good_interval == NextInterval(p, good_stability, 0)
        easy_interval == AsI64(FMax(NextInterval(p, c.stability, 0),
                                    good_interval + OneDay))
        res == CASE rating = Again -> <<DurationMinutes(5), last.state>>
                 [] rating = Hard  -> <<DurationMinutes(10), last.state>>
                 [] rating = Good  -> <<DurationDays(good_days), Reviewing>>
                 [] rating = Easy  -> <<DurationDays(easy_interval), Reviewing>>
    IN  [c EXCEPT !.due = t + res[1], !.state = res[2]]

ShortTerm_review_reviewing(self, p, t, rating) ==
    LET stability == self.card.stability
        difficulty == self.card.difficulty
        retrievability == Retrievability(self.card, t)
        c == [self.card EXCEPT
                 !.difficulty = NextDifficulty(difficulty, rating),
                 !.stability = NextStability(difficulty, stability,
                                             retrievability, rating),
                 !.reviewed_at = t]
        interval == NextInterval(p, c.stability, 0)
        due == IF rating = Again THEN DurationMinutes(5)
               ELSE DurationDays(AsI64(interval))
    IN  [c EXCEPT !.due = t + due, !.state = ShortTerm_next_state(rating)]

\* a slip in next_card: the rating is not written into the returned card
ShortTerm_next_card_NoRating(self, p, t, rating) ==
    CASE self.card.state = New -> ShortTerm_review_new(self, p, t, rating)
      [] self.card.state \in {Learning, Relearning} ->
             ShortTerm_review_learning(self, p, t, rating)
      [] self.card.state = Reviewing ->
             ShortTerm_review_reviewing(self, p, t, rating)

ShortTerm_next_card(self, p, t, rating) ==
    LET out == CASE self.card.state = New -> ShortTerm_review_new(self, p, t, rating)
                 [] self.card.state \in {Learning, Relearning} ->
                        ShortTerm_review_learning(self, p, t, rating)
                 [] self.card.state = Reviewing ->
                        ShortTerm_review_reviewing(self, p, t, rating)
    IN  [out EXCEPT !.rating = rating]

----------------------------------------------------------------------------
(* scheduler/longterm.rs.  The four candidate cards next_again, next_hard, *)
(* next_good, next_easy are the function nx from rating to card; a method  *)
(* taking &mut self returns the pair <<self', result>>.                     *)

LongtermNew(c) == BaseNew(c)

\* a slip in init_difficulty_stability: next_easy gets Good's difficulty
Longterm_init_difficulty_stability_EasyAsGood(nx) ==
    [r \in Ratings |-> [nx[r] EXCEPT
                           !.difficulty = InitDifficulty(IF r = Easy THEN Good ELSE r),
                           !.stability = InitStability(r)]]

Longterm_init_difficulty_stability(nx) ==
    [r \in Ratings |-> [nx[r] EXCEPT
                           !.difficulty = InitDifficulty(r),
                           !.stability = InitStability(r)]]

Longterm_next_difficulty_stability(nx, difficulty, stability, retrievability) ==
    [r \in Ratings |-> [nx[r] EXCEPT
        !.difficulty = NextDifficulty(difficulty, r),
        !.stability =
            IF r = Again
            THEN NextForgetStability(difficulty, stability, retrievability)
            ELSE NextRecallStability(difficulty, stability, retrievability, r)]]

\* a slip in next_interval: the Good interval is not raised above Hard
Longterm_next_interval_GoodUnclamped(nx, p, t, elapsed_days) ==
    LET again_raw == NextInterval(p, nx[Again].stability, elapsed_days)
        hard_raw == NextInterval(p, nx[Hard].stability, elapsed_days)
        good_raw == NextInterval(p, nx[Good].stability, elapsed_days)
        easy_raw == NextInterval(p, nx[Easy].stability, elapsed_days)
        again_interval == FMin(again_raw, hard_raw)
        hard_interval == FMax(hard_raw, again_interval + OneDay)
        good_interval == good_raw
        easy_interval == FMax(easy_raw, good_interval + OneDay)
        ivl == [r \in Ratings |->
                   CASE r = Again -> again_interval
                     [] r = Hard  -> hard_interval
                     [] r = Good  -> good_interval
                     [] r = Easy  -> easy_interval]
    IN  [r \in Ratings |-> [nx[r] EXCEPT
                               !.scheduled_days = AsI64(ivl[r]),
                               !.due = t + DurationDays(AsI64(ivl[r]))]]

Longterm_next_interval(nx, p, t, elapsed_days) ==
    LET again_raw == NextInterval(p, nx[Again].stability, elapsed_days)
        hard_raw == NextInterval(p, nx[Hard].stability, elapsed_days)
        good_raw == NextInterval(p, nx[Good].stability, elapsed_days)
        easy_raw == NextInterval(p, nx[Easy].stability, elapsed_days)
        again_interval == FMin(again_raw, hard_raw)
        hard_interval == FMax(hard_raw, again_interval + OneDay)
        good_interval == FMax(good_raw, hard_interval + OneDay)
        easy_interval == FMax(easy_raw, good_interval + OneDay)
        ivl == [r \in Ratings |->
                   CASE r = Again -> again_interval
                     [] r = Hard  -> hard_interval
                     [] r = Good  -> good_interval
                     [] r = Easy  -> easy_interval]
    IN  [r \in Ratings |-> [nx[r] EXCEPT
                               !.scheduled_days = AsI64(ivl[r]),
                               !.due = t + DurationDays(AsI64(ivl[r]))]]

Longterm_next_state(nx) ==
    [r \in Ratings |-> [nx[r] EXCEPT !.state = Review]]

\* inserts the four outcomes into the cache self.next
Longterm_update_next(self, t, nx) ==
    [self EXCEPT !.next =
        [r \in Ratings |-> [card |-> nx[r], review_log |-> BuildLog(self, t, r)]]]

\* a slip in new_state: the cache is not consulted, every call recomputes
Longterm_new_state_NoCache(self, p, t, rating) ==
    LET next == self.current
        self1 == [self EXCEPT !.current.scheduled_days = 0,
                              !.current.elapsed_days = 0]
        nx0 == [r \in Ratings |-> next]
        nx1 == Longterm_init_difficulty_stability(nx0)
        nx2 == Longterm_next_interval(nx1, p, t, 0)
        nx3 == Longterm_next_state(nx2)
        self2 == Longterm_update_next(self1, t, nx3)
    IN  <<self2, self2.next[rating]>>

Longterm_new_state(self, p, t, rating) ==
    IF rating \in DOMAIN self.next
    THEN <<self, self.next[rating]>>
    ELSE LET next == self.current
             self1 == [self EXCEPT !.current.scheduled_days = 0,
                                   !.current.elapsed_days = 0]
             nx0 == [r \in Ratings |-> next]
             nx1 == Longterm_init_difficulty_stability(nx0)
             nx2 == Longterm_next_interval(nx1, p, t, 0)
             nx3 == Longterm_next_state(nx2)
             self2 == Longterm_update_next(self1, t, nx3)
         IN  <<self2, self2.next[rating]>>

\* a slip in review_state: only the requested rating is computed into the cache
Longterm_review_state_Lazy(self, p, t, rating) ==
    IF rating \in DOMAIN self.next
    THEN <<self, self.next[rating]>>
    ELSE LET next == self.current
             interval == self.current.elapsed_days
             stability == self.last.stability
             difficulty == self.last.difficulty
             retrievability == Retrievability(self.last, t)
             nx0 == [r \in Ratings |-> next]
             nx1 == Longterm_next_difficulty_stability(nx0, difficulty,
                        stability, retrievability)
             nx2 == Longterm_next_interval(nx1, p, t, interval)
             nx3 == Longterm_next_state(nx2)
             nx4 == [nx3 EXCEPT ![Again].lapses = nx3[Again].lapses + 1]
             full == Longterm_update_next(self, t, nx4)
             self1 == [self EXCEPT !.next =
                          [r \in (DOMAIN self.next) \cup {rating} |->
                              IF r = rating THEN full.next[r] ELSE self.next[r]]]
         IN  <<self1, self1.next[rating]>>

\* a slip in review_state: the Again outcome does not count the lapse
Longterm_review_state_NoLapse(self, p, t, rating) ==
    IF rating \in DOMAIN self.next
    THEN <<self, self.next[rating]>>
    ELSE LET next == self.current
             interval == self.current.elapsed_days
             stability == self.last.stability
             difficulty == self.last.difficulty
             retrievability == Retrievability(self.last, t)
             nx0 == [r \in Ratings |-> next]
             nx1 == Longterm_next_difficulty_stability(nx0, difficulty,
                        stability, retrievability)
             nx2 == Longterm_next_interval(nx1, p, t, interval)
             nx3 == Longterm_next_state(nx2)
             nx4 == nx3
             self1 == Longterm_update_next(self, t, nx4)
         IN  <<self1, self1.next[rating]>>

Longterm_review_state(self, p, t, rating) ==
    IF rating \in DOMAIN self.next
    THEN <<self, self.next[rating]>>
    ELSE LET next == self.current
             interval == self.current.elapsed_days
             stability == self.last.stability
             difficulty == self.last.difficulty
             retrievability == Retrievability(self.last, t)
             nx0 == [r \in Ratings |-> next]
             nx1 == Longterm_next_difficulty_stability(nx0, difficulty,
                        stability, retrievability)
             nx2 == Longterm_next_interval(nx1, p, t, interval)
             nx3 == Longterm_next_state(nx2)
             nx4 == [nx3 EXCEPT ![Again].lapses = nx3[Again].lapses + 1]
             self1 == Longterm_update_next(self, t, nx4)
         IN  <<self1, self1.next[rating]>>

Longterm_learning_state(self, p, t, rating) ==
    Longterm_review_state(self, p, t, rating)

Longterm_review(self, p, t, rating) ==
    CASE self.last.state = New -> Longterm_new_state(self, p, t, rating)
      [] self.last.state \in {Learning, Relearning} ->
             Longterm_learning_state(self, p, t, rating)
      [] self.last.state = Review -> Longterm_review_state(self, p, t, rating)

\* the stabilities Longterm hands to next_interval for a prior card
LongtermKeys(c, t) ==
    IF c.state = New THEN {InitStability(r) : r \in Ratings}
    ELSE {NextStability(c.difficulty, c.stability, Retrievability(c, t), r) :
             r \in Ratings}

----------------------------------------------------------------------------
(* Review events *)

None == <<>>
Some(x) == <<x>>
IsSome(o) == Len(o) = 1
Get(o) == o[1]

NoOuts == [r \in Ratings |-> None]
NoParams == [ivl |-> <<>>, uses_elapsed |-> FALSE]
NoChain == [strategy |-> "-", reviews |-> 0, relearned |-> 0,
            from |-> New, rating |-> NoRating, lapses_before |-> 0]

\* the prior cards a caller can hold: a New card has never lapsed; its
\* elapsed_days and scheduled_days are whatever the caller supplies
PriorCards(t) ==
    {PriorCard(x[1], x[2], x[3], t) :
        x \in {y \in States \X (0..MaxLapses) \X (0..MaxElapsed) :
                  y[1] = New => y[2] = 0}}

\* the caller's construct(configuration, priorCard, reviewTimestamp) of the
\* strategy `which`; the other strategies have no instance
Construct(which, c, t, p) ==
    /\ card = c
    /\ now = t
    /\ params = p
    /\ basic = IF which = "Basic" THEN Some(BaseNew(c)) ELSE None
    /\ shortTerm = IF which = "ShortTerm" THEN Some(ShortTermNew(c)) ELSE None
    /\ longterm = IF which = "Longterm" THEN Some(LongtermNew(c)) ELSE None
    /\ basicOut = NoOuts
    /\ stOut = NoOuts
    /\ ltOut = None

----------------------------------------------------------------------------
(* Spec: one review event, with a Basic or a ShortTerm built on it *)

Init ==
    /\ \E which \in {"Basic", "ShortTerm"} :
       \E c \in PriorCards(Epoch) :
       \E p \in Providers(BasicKeys(c, Epoch), MaxRaw) :
          Construct(which, c, Epoch, p)
    /\ chain = NoChain

\* Basic::next_card(&self, rating)
BasicNextCard(rating) ==
    /\ IsSome(basic)
    /\ basicOut' = [basicOut EXCEPT
          ![rating] = Some(Basic_next_card(Get(basic), params, now, rating))]
    /\ UNCHANGED <<params, card, now, basic, shortTerm, longterm, stOut, ltOut, chain>>

\* ShortTerm::next_card(&self, rating)
ShortTermNextCard(rating) ==
    /\ IsSome(shortTerm)
    /\ stOut' = [stOut EXCEPT
          ![rating] = Some(ShortTerm_next_card(Get(shortTerm), params, now, rating))]
    /\ UNCHANGED <<params, card, now, basic, shortTerm, longterm, basicOut, ltOut, chain>>

Next ==
    \/ \E rating \in Ratings : BasicNextCard(rating)
    \/ \E rating \in Ratings : ShortTermNextCard(rating)

Spec == Init /\ [][Next]_vars

----------------------------------------------------------------------------
(* SpecLongterm: one review event, with a Longterm built on it *)

InitLongterm ==
    /\ \E c \in PriorCards(Epoch) :
       \E p \in Providers(BasicKeys(c, Epoch) \cup LongtermKeys(c, Epoch), MaxRawLT) :
          Construct("Longterm", c, Epoch, p)
    /\ chain = NoChain

\* Longterm::new(parameters, card, now): a fresh instance for the same event
LongtermConstruct ==
    /\ ltOut # None
    /\ longterm' = Some(LongtermNew(card))
    /\ ltOut' = None
    /\ UNCHANGED <<params, card, now, basic, shortTerm, basicOut, stOut, chain>>

\* Longterm::review(&mut self, rating); ltOut records the call: its rating,
\* the SchedulingInfo returned, and whether the cache answered it
LongtermReview(rating) ==
    /\ IsSome(longterm)
    /\ LET res == Longterm_review(Get(longterm), params, now, rating)
       IN  /\ longterm' = Some(res[1])
           /\ ltOut' = Some([rating |-> rating, info |-> res[2],
                             hit |-> rating \in DOMAIN Get(longterm).next])
    /\ UNCHANGED <<params, card, now, basic, shortTerm, basicOut, stOut, chain>>

NextLongterm ==
    \/ \E rating \in Ratings : LongtermReview(rating)
    \/ LongtermConstruct

SpecLongterm == InitLongterm /\ [][NextLongterm]_vars

----------------------------------------------------------------------------
(* SpecAll: one review event, with any one of the three strategies built   *)
(* on it                                                                   *)

InitAll == Init \/ InitLongterm

NextAll == Next \/ NextLongterm

SpecAll == InitAll /\ [][NextAll]_vars

----------------------------------------------------------------------------
(* SpecChain: a chain of reviews from a brand-new card, as the tests run   *)
(* it: each review builds a strategy on the previous review's output card  *)
(* at that card's due timestamp, with any configuration.                   *)

InitChain ==
    /\ card = CardNew(Epoch)
    /\ now = Epoch
    /\ params = NoParams
    /\ basic = None /\ shortTerm = None /\ longterm = None
    /\ basicOut = NoOuts /\ stOut = NoOuts /\ ltOut = None
    /\ \E s \in {"Basic", "ShortTerm"} : chain = [NoChain EXCEPT !.strategy = s]

\* the card a strategy built for this review returns
ChainNextCard(p, rating) ==
    IF chain.strategy = "Basic"
    THEN Basic_next_card(BaseNew(card), p, now, rating)
    ELSE ShortTerm_next_card(ShortTermNew(card), p, now, rating)

ChainReview(rating) ==
    /\ chain.reviews < MaxReviews
    /\ \E p \in Providers(BasicKeys(card, now), MaxRaw) :
         LET out == ChainNextCard(p, rating)
         IN  /\ card' = out
             /\ now' = out.due
             /\ chain' = [chain EXCEPT
                    !.reviews = @ + 1,
                    !.relearned = @ + (IF card.state = Reviewing /\ out.state = Relearning
                                       THEN 1 ELSE 0),
                    !.from = card.state,
                    !.rating = rating,
                    !.lapses_before = card.lapses]
    /\ UNCHANGED <<params, basic, shortTerm, longterm, basicOut, stOut, ltOut>>

NextChain == \E rating \in Ratings : ChainReview(rating)

SpecChain == InitChain /\ [][NextChain]_vars

----------------------------------------------------------------------------
(* SpecFixture: the state tests' loop, the thirteen ratings of TEST_RATINGS *)
(* applied in order to a brand-new card, under any provider                 *)

TEST_RATINGS ==
    <<Good, Good, Good, Good, Good, Good, Again, Again, Good, Good, Good, Good, Good>>

\* the card of the next iteration and the state pushed onto state_list:
\* test_basic_scheduler_state pushes the review log's state, the ShortTerm
\* state test pushes the input card's state before the review
FixtureStep(p, rating) ==
    IF chain.strategy = "Basic"
    THEN LET record == Basic_schedule(BaseNew(card), p, now, rating)
         IN  [card |-> record.card, pushed |-> record.review.state]
    ELSE [card |-> ShortTerm_next_card(ShortTermNew(card), p, now, rating),
          pushed |-> card.state]

FixtureReview ==
    /\ chain.reviews < Len(TEST_RATINGS)
    /\ \E p \in Providers(BasicKeys(card, now), MaxRaw) :
         LET rating == TEST_RATINGS[chain.reviews + 1]
             step == FixtureStep(p, rating)
         IN  /\ card' = step.card
             /\ now' = step.card.due
             /\ chain' = [chain EXCEPT
                    !.reviews = @ + 1,
                    !.relearned = @ + (IF card.state = Reviewing /\ step.card.state = Relearning
                                       THEN 1 ELSE 0),
                    !.from = step.pushed,
                    !.rating = rating,
                    !.lapses_before = card.lapses]
    /\ UNCHANGED <<params, basic, shortTerm, longterm, basicOut, stOut, ltOut>>

NextFixture == FixtureReview

SpecFixture == InitChain /\ [][NextFixture]_vars

----------------------------------------------------------------------------
(* Claims *)

\* the stability a prior card's review computes for a rating, by prior state
\* (Basic and ShortTerm)
StabilityFor(c, t, rating) ==
    CASE c.state = New -> InitStability(rating)
      [] c.state \in {Learning, Relearning} -> ShortTermStability(c.stability, rating)
      [] c.state = Reviewing ->
             NextStability(c.difficulty, c.stability, Retrievability(c, t), rating)

\* the raw interval the provider returns to Basic for a rating's stability
RawBasic(rating) == NextInterval(params, StabilityFor(card, now, rating), card.elapsed_days)
\* the raw interval the provider returns to ShortTerm for a rating's stability
RawShortTerm(rating) == NextInterval(params, StabilityFor(card, now, rating), 0)

\* the transition table of the specification's section 4.3
TransitionTable(state, rating) ==
    CASE state = New -> IF rating = Easy THEN Reviewing ELSE Learning
      [] state \in {Learning, Relearning} ->
             IF rating \in {Again, Hard} THEN state ELSE Reviewing
      [] state = Reviewing -> IF rating = Again THEN Relearning ELSE Reviewing

\* C1: every Basic.next_card call returns a card, and its lifecycle state is
\* the transition table's entry for (prior state, rating), whatever the other
\* fields of the prior card and the configuration are; Good on a Reviewing
\* card never yields Learning.
C1_BasicTransitionTable ==
    \A r \in Ratings :
        IsSome(basicOut[r]) =>
            /\ Get(basicOut[r]).state = TransitionTable(card.state, r)
            /\ (card.state = Reviewing /\ r = Good => Get(basicOut[r]).state # Learning)

\* C1 witness: a Basic instance has answered all four ratings on a Reviewing card
C1_Witness ==
    /\ card.state = Reviewing
    /\ \A r \in Ratings : IsSome(basicOut[r])
    /\ Get(basicOut[Good]).state = Reviewing
    /\ Get(basicOut[Again]).state = Relearning

\* C2: on a Reviewing card the Hard, Good and Easy outcomes of one Basic
\* instance have scheduled_days(Hard) <= scheduled_days(Good) <=
\* scheduled_days(Easy), whatever the raw intervals are.
C2_BasicReviewingOrdered ==
    (card.state = Reviewing /\ \A r \in {Hard, Good, Easy} : IsSome(basicOut[r])) =>
        /\ Get(basicOut[Hard]).scheduled_days <= Get(basicOut[Good]).scheduled_days
        /\ Get(basicOut[Good]).scheduled_days <= Get(basicOut[Easy]).scheduled_days

\* C2 witness: the three outcomes exist for raw Hard > raw Good > raw Easy,
\* with a positive elapsed_days
C2_Witness ==
    /\ card.state = Reviewing
    /\ card.elapsed_days > 0
    /\ \A r \in {Hard, Good, Easy} : IsSome(basicOut[r])
    /\ RawBasic(Hard) > RawBasic(Good)
    /\ RawBasic(Easy) < RawBasic(Good)

\* the card a freshly constructed Basic returns for the event and a rating
FreshBasic(rating) == Basic_next_card(BaseNew(card), params, now, rating)

\* the latest Longterm.review call: its rating and the card it returned
LtRating == Get(ltOut).rating
LtCard == Get(ltOut).info.card
\* the outcome cache of the Longterm instance
LtCache == Get(longterm).next
\* the raw interval the provider returned to Longterm for a cached outcome
LtRaw(rating) ==
    NextInterval(params, LtCache[rating].card.stability,
                 IF card.state = New THEN 0 ELSE card.elapsed_days)

\* C3 (as claimed): the card Longterm.review(r) returns equals the card a
\* freshly constructed Basic returns from next_card(r): same next state,
\* scheduled_days, due, lapses, difficulty and stability, for every prior state.
C3_LongtermEqualsBasic ==
    IsSome(ltOut) =>
        LET b == FreshBasic(LtRating)
        IN  /\ LtCard.state = b.state
            /\ LtCard.scheduled_days = b.scheduled_days
            /\ LtCard.due = b.due
            /\ LtCard.lapses = b.lapses
            /\ LtCard.difficulty = b.difficulty
            /\ LtCard.stability = b.stability

\* C3 (amended): the card Longterm.review(r) returns has the difficulty of
\* the card a fresh Basic returns from next_card(r) for every prior state, its
\* stability when the prior state is New or Reviewing, and its lapses except
\* for Again on a Learning or Relearning card, where Longterm counts one more;
\* its next state is always Reviewing, so it is Basic's exactly when Basic's
\* is Reviewing.
C3_LongtermAgreesWithBasic ==
    IsSome(ltOut) =>
        LET b == FreshBasic(LtRating)
        IN  /\ LtCard.difficulty = b.difficulty
            /\ (card.state \in {New, Reviewing} => LtCard.stability = b.stability)
            /\ LtCard.lapses =
                  b.lapses + (IF card.state \in {Learning, Relearning} /\ LtRating = Again
                              THEN 1 ELSE 0)
            /\ LtCard.state = Reviewing
            /\ (LtCard.state = b.state <=> b.state = Reviewing)

\* C3 witness: Longterm.review(Easy) has answered on a New card
C3_Witness ==
    /\ IsSome(ltOut)
    /\ card.state = New
    /\ LtRating = Easy
    /\ LtCard.difficulty = InitDifficulty(Easy)
    /\ FreshBasic(Easy).state = LtCard.state

\* C4 (as claimed): when the provider's next_interval ignores elapsed days,
\* ShortTerm.next_card(r) and Basic.next_card(r) on the same prior card and
\* timestamp give the same next state, difficulty, stability and due.
C4_ShortTermEqualsBasic ==
    \A r \in Ratings :
        (IsSome(stOut[r]) /\ ~params.uses_elapsed) =>
            LET b == FreshBasic(r)
                c == Get(stOut[r])
            IN  /\ c.state = b.state
                /\ c.difficulty = b.difficulty
                /\ c.stability = b.stability
                /\ c.due = b.due

\* the cache holds no entry or one entry for each of the four ratings
C5_CacheInv ==
    IsSome(longterm) => Cardinality(DOMAIN LtCache) \in {0, 4}

\* a review call leaves all four ratings cached and returns its rating's
\* entry; on a populated cache it is answered from it and leaves it unchanged
C5_ReviewStep ==
    ltOut' # None =>
        LET before == Get(longterm).next
            after == Get(longterm').next
            call == Get(ltOut')
        IN  /\ DOMAIN after = Ratings
            /\ call.info = after[call.rating]
            /\ (DOMAIN before # {} => (after = before /\ call.hit))

\* C5: the outcome cache of a Longterm instance holds no entry or one entry
\* for each of the four ratings (never 1, 2 or 3); the first review call
\* populates all four in one pass, and every later review call, for any
\* rating, returns the cached outcome and leaves the cache unchanged.
C5_CacheAllOrNothing == [](C5_CacheInv) /\ [][C5_ReviewStep]_vars

\* C5 witness: a later call with another rating was answered from the cache
C5_Witness ==
    /\ IsSome(ltOut)
    /\ Get(ltOut).hit
    /\ LtRating = Hard
    /\ DOMAIN LtCache = Ratings
    /\ Get(ltOut).info = LtCache[Hard]

\* C6: the four outcomes cached by one Longterm.review pass have
\* scheduled_days(Again) <= scheduled_days(Hard) <= scheduled_days(Good) <=
\* scheduled_days(Easy), for every prior state and every raw intervals.
C6_LongtermOrdered ==
    (IsSome(longterm) /\ DOMAIN LtCache = Ratings) =>
        /\ LtCache[Again].card.scheduled_days <= LtCache[Hard].card.scheduled_days
        /\ LtCache[Hard].card.scheduled_days <= LtCache[Good].card.scheduled_days
        /\ LtCache[Good].card.scheduled_days <= LtCache[Easy].card.scheduled_days

\* C6 witness: a pass on raw Again > raw Hard and raw Good > raw Easy
C6_Witness ==
    /\ IsSome(longterm)
    /\ DOMAIN LtCache = Ratings
    /\ card.state = Relearning
    /\ LtRaw(Again) > LtRaw(Hard)
    /\ LtRaw(Good) > LtRaw(Easy)

\* the (state, rating) pairs that are not scheduled in days, and their delay
\* in minutes
FixedDelayPairs ==
    ({New} \X {Again, Hard, Good}) \cup ({Learning, Relearning} \X {Again, Hard})
        \cup ({Reviewing} \X {Again})
FixedDelay(state, rating) ==
    CASE state = New -> (CASE rating = Again -> 1 [] rating = Hard -> 5 [] rating = Good -> 10)
      [] state \in {Learning, Relearning} -> (CASE rating = Again -> 5 [] rating = Hard -> 10)
      [] state = Reviewing -> 5

\* C7: a Basic outcome that is not scheduled in days has scheduled_days = 0
\* and due - now equal to the fixed delay of its (state, rating) pair (New:
\* 1/5/10 minutes for Again/Hard/Good; Learning, Relearning: 5/10 minutes for
\* Again/Hard; Reviewing: 5 minutes for Again); ShortTerm has the same delays.
C7_FixedDelays ==
    \A r \in Ratings :
        <<card.state, r>> \in FixedDelayPairs =>
            /\ IsSome(basicOut[r]) =>
                  /\ Get(basicOut[r]).scheduled_days = 0
                  /\ Get(basicOut[r]).due - now = FixedDelay(card.state, r)
            /\ IsSome(stOut[r]) =>
                  Get(stOut[r]).due - now = FixedDelay(card.state, r)

\* C7 witness: a Basic instance has answered Again, Hard and Good on a New card
C7_Witness ==
    /\ card.state = New
    /\ \A r \in {Again, Hard, Good} : IsSome(basicOut[r])
    /\ Get(basicOut[Hard]).due = now + 5
    /\ Get(basicOut[Good]).scheduled_days = 0

\* C8: in a chain of Basic reviews the output card's lapses is the prior
\* card's lapses plus 1 when the prior state is Reviewing and the rating is
\* Again, and the prior card's lapses otherwise; so lapses is the number of
\* Reviewing-to-Relearning transitions taken so far, and never decreases.
C8_BasicLapses ==
    chain.strategy = "Basic" =>
        /\ chain.reviews > 0 =>
              card.lapses = chain.lapses_before +
                  (IF chain.from = Reviewing /\ chain.rating = Again THEN 1 ELSE 0)
        /\ card.lapses = chain.relearned
        /\ card.lapses >= chain.lapses_before

\* C8 witness: a chain of Basic reviews has lapsed twice
C8_Witness ==
    /\ chain.strategy = "Basic"
    /\ chain.from = Reviewing
    /\ chain.rating = Again
    /\ chain.lapses_before = 1
    /\ card.lapses = 2
    /\ card.state = Relearning

\* C9 (as claimed): for every prior state the cached Hard, Good and Easy cards
\* carry the prior card's lapses and the cached Again card one more.
C9_AgainAlwaysLapses ==
    (IsSome(longterm) /\ DOMAIN LtCache = Ratings) =>
        /\ \A r \in {Hard, Good, Easy} : LtCache[r].card.lapses = card.lapses
        /\ LtCache[Again].card.lapses = card.lapses + 1

\* C9 (amended): the cached Hard, Good and Easy cards carry the prior card's
\* lapses for every prior state; the cached Again card has one more when the
\* prior state is Learning, Relearning or Reviewing, and the prior card's
\* lapses when the prior state is New.
C9_AgainLapsesUnlessNew ==
    (IsSome(longterm) /\ DOMAIN LtCache = Ratings) =>
        /\ \A r \in {Hard, Good, Easy} : LtCache[r].card.lapses = card.lapses
        /\ LtCache[Again].card.lapses = card.lapses + (IF card.state = New THEN 0 ELSE 1)

\* C9 witness: a pass on a Learning card that has lapsed before
C9_Witness ==
    /\ IsSome(longterm)
    /\ DOMAIN LtCache = Ratings
    /\ card.state = Learning
    /\ card.lapses > 0
    /\ LtCache[Again].card.lapses = card.lapses + 1

\* the interval in whole days of an outcome: due - now
DaysOf(c) == (c.due - now) \div MinutesPerDay

\* C10 (as claimed): for a Learning or Relearning card, in Basic and in
\* ShortTerm, the Easy outcome's interval in days is at least the raw
\* Good-path interval plus one day, and the Easy outcome is due strictly
\* later than the Good outcome of the same event.
C10_EasyAboveRawGood ==
    card.state \in {Learning, Relearning} =>
        /\ IsSome(basicOut[Easy]) =>
              Get(basicOut[Easy]).scheduled_days * RawPerDay >= RawBasic(Good) + OneDay
        /\ IsSome(stOut[Easy]) =>
              DaysOf(Get(stOut[Easy])) * RawPerDay >= RawShortTerm(Good) + OneDay
        /\ (IsSome(basicOut[Easy]) /\ IsSome(basicOut[Good])) =>
              Get(basicOut[Easy]).due > Get(basicOut[Good]).due
        /\ (IsSome(stOut[Easy]) /\ IsSome(stOut[Good])) =>
              Get(stOut[Easy]).due > Get(stOut[Good]).due

\* C10 (amended): for a Learning or Relearning card, in Basic and in
\* ShortTerm, the Easy outcome's interval in days is at least the raw
\* Good-path interval plus one day truncated to whole days, which is the Good
\* outcome's interval in days plus one; so the Easy outcome is due strictly
\* later than the Good outcome of the same event.
C10_EasyAboveGood ==
    card.state \in {Learning, Relearning} =>
        /\ IsSome(basicOut[Easy]) =>
              /\ Get(basicOut[Easy]).scheduled_days >= AsI64(RawBasic(Good) + OneDay)
              /\ DaysOf(Get(basicOut[Easy])) = Get(basicOut[Easy]).scheduled_days
        /\ IsSome(stOut[Easy]) =>
              DaysOf(Get(stOut[Easy])) >= AsI64(RawShortTerm(Good) + OneDay)
        /\ (IsSome(basicOut[Easy]) /\ IsSome(basicOut[Good])) =>
              /\ Get(basicOut[Easy]).scheduled_days >= Get(basicOut[Good]).scheduled_days + 1
              /\ Get(basicOut[Easy]).due > Get(basicOut[Good]).due
        /\ (IsSome(stOut[Easy]) /\ IsSome(stOut[Good])) =>
              /\ DaysOf(Get(stOut[Easy])) >= DaysOf(Get(stOut[Good])) + 1
              /\ Get(stOut[Easy]).due > Get(stOut[Good]).due

\* C10 witness: Good and Easy answered on a Learning card whose raw Easy
\* interval is smaller than its raw Good interval
C10_Witness ==
    /\ card.state = Learning
    /\ IsSome(basicOut[Easy])
    /\ IsSome(basicOut[Good])
    /\ RawBasic(Easy) < RawBasic(Good)
    /\ Get(basicOut[Easy]).scheduled_days = Get(basicOut[Good]).scheduled_days + 1

----------------------------------------------------------------------------
(* C11 *)

\* what the first call for a rating returns on a freshly constructed instance
FreshShortTerm(rating) == ShortTerm_next_card(ShortTermNew(card), params, now, rating)
FreshLongterm(rating) == Longterm_review(LongtermNew(card), params, now, rating)[2]

\* C11: determinism.  For a fixed configuration, prior card, timestamp and
\* rating, every call on a strategy instance -- Basic next_card, ShortTerm
\* next_card, Longterm review -- returns, whatever calls were made on the
\* instance before it, exactly what the first call on a freshly constructed
\* instance returns.
C11_Deterministic ==
    /\ \A r \in Ratings : IsSome(basicOut[r]) => Get(basicOut[r]) = FreshBasic(r)
    /\ \A r \in Ratings : IsSome(stOut[r]) => Get(stOut[r]) = FreshShortTerm(r)
    /\ IsSome(ltOut) => Get(ltOut).info = FreshLongterm(LtRating)

\* a Longterm review answered after an earlier call had already rewritten the
\* instance's current card (a New card handed over with elapsed days)
C11_Witness ==
    /\ IsSome(ltOut)
    /\ Get(ltOut).hit
    /\ card.state = New
    /\ card.elapsed_days > 0
    /\ Get(longterm).current # card

----------------------------------------------------------------------------
(* C12 *)

----------------------------------------------------------------------------
(* C13 *)

\* the states the two state tests expect, in order
ExpectedStates ==
    <<New, Learning, Reviewing, Reviewing, Reviewing, Reviewing, Reviewing,
      Relearning, Relearning, Reviewing, Reviewing, Reviewing, Reviewing>>

\* C13: on the chain that starts from a brand-new card and applies the
\* ratings Good x6, Again, Again, Good x5, each review scheduled at the
\* previous due time, the state seen before each review (the state in the
\* Basic review log, the input card's state for ShortTerm) is, in order,
\* New, Learning, Reviewing x5, Relearning, Relearning, Reviewing x4.
C13_FixtureStates ==
    chain.reviews > 0 => chain.from = ExpectedStates[chain.reviews]

\* the whole rating list has been applied by a Basic chain
C13_Witness ==
    /\ chain.strategy = "Basic"
    /\ chain.reviews = Len(TEST_RATINGS)
    /\ chain.from = Reviewing
    /\ chain.relearned = 1

----------------------------------------------------------------------------
(* C14 *)

\* the difficulty the provider produces for this review event and a rating
ProducedDifficulty(rating) ==
    IF card.state = New THEN InitDifficulty(rating)
    ELSE NextDifficulty(card.difficulty, rating)

\* a difficulty returned by one of the provider's two clamping formulas; the
\* prior card's own difficulty is the caller's and carries no such guarantee
InProviderRange(d) == d.f \in {"init_difficulty", "next_difficulty"}

\* C14: difficulty bound.  Every output card's difficulty is freshly produced
\* by the provider -- init_difficulty of the rating when the prior state is
\* New, next_difficulty of the prior card's difficulty and the rating in every
\* other state -- for Basic, ShortTerm and Longterm alike, so it lies in the
\* range [1, 10] of the provider's results whatever the prior difficulty was.
C14_DifficultyFromProvider ==
    /\ \A r \in Ratings : IsSome(basicOut[r]) =>
          /\ Get(basicOut[r]).difficulty = ProducedDifficulty(r)
          /\ InProviderRange(Get(basicOut[r]).difficulty)
    /\ \A r \in Ratings : IsSome(stOut[r]) =>
          /\ Get(stOut[r]).difficulty = ProducedDifficulty(r)
          /\ InProviderRange(Get(stOut[r]).difficulty)
    /\ IsSome(ltOut) =>
          /\ LtCard.difficulty = ProducedDifficulty(LtRating)
          /\ InProviderRange(LtCard.difficulty)
          /\ \A r \in Ratings :
                /\ LtCache[r].card.difficulty = ProducedDifficulty(r)
                /\ InProviderRange(LtCache[r].card.difficulty)

\* a ShortTerm review of a Learning card rated Hard: the card stays in
\* Learning and its difficulty is next_difficulty of the caller's difficulty
C14_Witness ==
    /\ card.state = Learning
    /\ ~InProviderRange(card.difficulty)
    /\ IsSome(stOut[Hard])
    /\ Get(stOut[Hard]).state = Learning
    /\ Get(stOut[Hard]).difficulty = NextDifficulty(card.difficulty, Hard)

----------------------------------------------------------------------------
(* C16 *)

\* C16: in Basic's Reviewing branch the clamped intervals are at least one
\* whole day apart for every input, tied or not: scheduled_days(Good) >=
\* scheduled_days(Hard) + 1 and scheduled_days(Easy) >= scheduled_days(Good)
\* + 1.  Clamping only lowers Hard, and then to the raw Good interval, and it
\* only raises Good and Easy above their raw intervals.
C16_BasicReviewingSeparated ==
    (card.state = Reviewing /\ \A r \in {Hard, Good, Easy} : IsSome(basicOut[r])) =>
        LET hard == Get(basicOut[Hard]).scheduled_days
            good == Get(basicOut[Good]).scheduled_days
            easy == Get(basicOut[Easy]).scheduled_days
        IN  /\ good >= hard + 1
            /\ easy >= good + 1
            /\ hard <= AsI64(RawBasic(Hard))
            /\ hard \in {AsI64(RawBasic(Hard)), AsI64(RawBasic(Good))}
            /\ good >= AsI64(RawBasic(Good))
            /\ easy >= AsI64(RawBasic(Easy))

\* the three outcomes exist where every clamp acts: raw Hard above raw Good,
\* raw Easy below raw Good, none of them tied
C16_Witness ==
    /\ card.state = Reviewing
    /\ \A r \in {Hard, Good, Easy} : IsSome(basicOut[r])
    /\ RawBasic(Hard) > RawBasic(Good)
    /\ RawBasic(Good) > RawBasic(Easy)
    /\ AsI64(RawBasic(Hard)) > Get(basicOut[Hard]).scheduled_days
    /\ Get(basicOut[Easy]).scheduled_days > AsI64(RawBasic(Easy))

----------------------------------------------------------------------------
(* C17 *)

\* where the card of a chain may be after a review, given where it was
C17_Reachable ==
    chain.reviews > 0 =>
        /\ card.state # New
        /\ card.state = Learning => chain.from \in {New, Learning}
        /\ card.state = Relearning =>
              \/ chain.from = Reviewing /\ chain.rating = Again
              \/ chain.from = Relearning /\ chain.rating \in {Again, Hard}

\* a review of a card in Reviewing or Relearning leaves it in one of the two
C17_NoWayBack ==
    card.state \in {Reviewing, Relearning} => card'.state \in {Reviewing, Relearning}

\* C17: over any chain of reviews with any ratings, in Basic and ShortTerm,
\* no output card is in state New; an output card is in Learning only if the
\* prior state was New or Learning, and in Relearning only if the prior state
\* was Reviewing with rating Again or Relearning with rating Again or Hard.
\* Hence a card that has reached Reviewing never returns to New or Learning.
C17_LifecycleOneWay == [](C17_Reachable) /\ [][C17_NoWayBack]_vars

\* a ShortTerm chain that reached Reviewing, lapsed, and was then rated Hard:
\* the card is still in Relearning
C17_Witness ==
    /\ chain.strategy = "ShortTerm"
    /\ chain.relearned = 1
    /\ chain.from = Relearning
    /\ chain.rating = Hard
    /\ card.state = Relearning

----------------------------------------------------------------------------
(* C18 *)

\* what one rating does to the card of a chain
C18_OneRating ==
    chain.reviews > 0 =>
        /\ chain.rating = Easy => card.state = Reviewing
        /\ (chain.rating = Good /\ chain.from # New) => card.state = Reviewing
        /\ (chain.from \in {Learning, Relearning} /\ chain.rating \in {Again, Hard}) =>
              card.state = chain.from

\* a review rated Good that follows a review rated Good
C18_TwoGoods ==
    (/\ chain.reviews > 0
     /\ chain.rating = Good
     /\ chain'.reviews = chain.reviews + 1
     /\ chain'.rating = Good) => card'.state = Reviewing

\* C18: bounded response in Basic and ShortTerm.  From any lifecycle state
\* one Easy rating puts the card in Reviewing, and two consecutive Good
\* ratings put the card in Reviewing (one suffices unless the card is New);
\* a card in Learning or Relearning stays in that same state for as long as
\* only Again or Hard ratings are applied.
C18_BoundedResponse == [](C18_OneRating) /\ [][C18_TwoGoods]_vars

\* a Basic chain from a new card rated Good, Good: Learning, then Reviewing
C18_Witness ==
    /\ chain.strategy = "Basic"
    /\ chain.reviews = 2
    /\ chain.from = Learning
    /\ chain.rating = Good
    /\ card.state = Reviewing

----------------------------------------------------------------------------
(* C19 *)

\* the (prior state, rating) pairs whose Basic outcome is scheduled in days
DayScheduled(state, rating) ==
    \/ state = New /\ rating = Easy
    \/ state \in {Learning, Relearning} /\ rating \in {Good, Easy}
    \/ state = Reviewing /\ rating \in {Hard, Good, Easy}

\* C19: in Basic every day-scheduled outcome (New with Easy; Learning or
\* Relearning with Good or Easy; Reviewing with Hard, Good or Easy) has due =
\* now + scheduled_days whole days and next state Reviewing; so an output
\* card in Reviewing has due - now = scheduled_days days, and an output card
\* in Learning or Relearning has scheduled_days = 0.
C19_BasicDueMatchesDays ==
    \A r \in Ratings :
        IsSome(basicOut[r]) =>
            LET c == Get(basicOut[r])
            IN  /\ DayScheduled(card.state, r) =>
                      /\ c.due = now + DurationDays(c.scheduled_days)
                      /\ c.state = Reviewing
                /\ c.state = Reviewing => c.due - now = c.scheduled_days * MinutesPerDay
                /\ c.state \in {Learning, Relearning} => c.scheduled_days = 0

\* a Reviewing card rated Easy by Basic: due a positive number of days later
\* than the Good outcome
C19_Witness ==
    /\ card.state = Reviewing
    /\ IsSome(basicOut[Easy])
    /\ IsSome(basicOut[Good])
    /\ Get(basicOut[Easy]).scheduled_days > Get(basicOut[Good]).scheduled_days
    /\ Get(basicOut[Easy]).due = now + DurationDays(Get(basicOut[Easy]).scheduled_days)

----------------------------------------------------------------------------
(* C20 *)

\* the fields ShortTerm.next_card may change
ShortTermWritten == {"difficulty", "stability", "reviewed_at", "due", "state", "rating"}

\* C20: ShortTerm.next_card(r) returns a card whose rating is r and whose
\* reviewed_at is the strategy's timestamp now, for every prior state; only
\* difficulty, stability, reviewed_at, due, state and rating may differ from
\* the input card, and every other field, the review and lapse counters
\* included, is copied unchanged.
C20_ShortTermFrame ==
    \A r \in Ratings :
        IsSome(stOut[r]) =>
            LET c == Get(stOut[r])
            IN  /\ c.rating = r
                /\ c.reviewed_at = now
                /\ DOMAIN c = DOMAIN card
                /\ \A f \in DOMAIN card \ ShortTermWritten : c[f] = card[f]

\* a lapsed Reviewing card, last reviewed a day ago with rating Good, is
\* rated Again by ShortTerm: the rating and review time are rewritten, the
\* counters are not
C20_Witness ==
    /\ card.state = Reviewing
    /\ card.lapses > 0
    /\ card.reviewed_at < now
    /\ card.rating = Good
    /\ IsSome(stOut[Again])
    /\ Get(stOut[Again]).rating = Again
    /\ Get(stOut[Again]).reviewed_at = now
    /\ Get(stOut[Again]).lapses = card.lapses
    /\ Get(stOut[Again]).reps = card.reps

====
